---- MODULE Spec2Model ----
(***************************************************************************)
(* The alert dispatch core of src/app/main.py: Notification, the notifier  *)
(* classes, and AlertSystem (cooldown map, queue.PriorityQueue, the daemon *)
(* worker running _process_queue, the per-notification ThreadPoolExecutor).*)
(* Producers are threads calling AlertSystem.notify; the worker is the     *)
(* thread started in AlertSystem.__init__.                                 *)
(***************************************************************************)
EXTENDS Integers, Sequences, FiniteSets, TLC

VARIABLES
  clock,            \* the value time.time() returns now (whole seconds)
  last_alert,       \* AlertSystem._last_alert: product_url -> timestamp, NoEntry if absent
  queue,            \* AlertSystem._queue.queue: the heap list of the PriorityQueue
  unfinished_tasks, \* AlertSystem._queue.unfinished_tasks
  nput,             \* number of put() calls so far: numbers the Notification objects
  running,          \* AlertSystem._running
  notifiers,        \* AlertSystem.notifiers
  ppc,              \* per producer: where it is inside notify
  args,             \* per producer: message, is_critical, product_url, last_time, now
  outcome,          \* per producer: how its last notify call ended
  calls,            \* number of notify calls started
  wpc,              \* where the worker thread is inside _process_queue
  note,             \* the worker's local (priority, note) of the current iteration
  idx,              \* position of the iterator of `for notifier in self.notifiers`
  futures           \* the executor's work items of the current iteration

vars == <<clock, last_alert, queue, unfinished_tasks, nput, running, notifiers,
          ppc, args, outcome, calls, wpc, note, idx, futures>>

-----------------------------------------------------------------------------
(* Bounds of the model *)

MaxCalls == 3
MaxNotifiers == 2
MaxWindows == 2

(* Program constants *)

Cooldown == 1800
max_workers == 3
Critical == 0
Info == 1

-----------------------------------------------------------------------------
(* Values *)

None == "<None>"
\* (variant: only None counts as absent)
TruthyUnlessNone(x) == x # None
\* Python truth of an optional string: `if product_url`, `not self.token`
Truthy(x) == x # None /\ x # ""

Producers == {"p1", "p2"}
MainThread == {"p1"}
Messages == {"A", "B", "C"}
Urls == {None, "", "u", "v"}
Tokens == {None, "", "tok"}
NoEntry == -1
NoNote == [priority |-> -1, note |-> [message |-> "", priority |-> -1], seq |-> 0]

\* The instants at which the clock is sampled: every multiple of the cooldown
\* window and the second before it, so that elapsed times of 1, 1799, 1800
\* and 1801 seconds occur.
ClockValues ==
  {t \in 0..(MaxWindows * Cooldown) : (t % Cooldown) \in {0, Cooldown - 1}}

Notification(message, priority) == [message |-> message, priority |-> priority]

ConsoleNotifier == [cls |-> "Console", token |-> None, chat_id |-> None]
TelegramNotifier(token, chat_id) ==
  [cls |-> "Telegram", token |-> token, chat_id |-> chat_id]
\* Other subclasses of BaseNotifier: one whose send raises, one whose send
\* does not return.
RaisingNotifier == [cls |-> "Raising", token |-> None, chat_id |-> None]
HangingNotifier == [cls |-> "Hanging", token |-> None, chat_id |-> None]

NotifierValues ==
  {ConsoleNotifier, RaisingNotifier, HangingNotifier}
    \cup {TelegramNotifier(t, c) : t \in Tokens, c \in Tokens}

-----------------------------------------------------------------------------
(* heapq on tuples (priority, Notification) *)

\* a < b for two queue items.  Tuples compare by the first differing element;
\* Notification is a dataclass with __eq__ and without ordering methods.
TupleLt(a, b) ==
  IF a.priority # b.priority
    THEN (IF a.priority < b.priority THEN "true" ELSE "false")
    ELSE IF a.note = b.note THEN "false" ELSE "TypeError"

Swap(heap, i, j) == [heap EXCEPT ![i] = heap[j], ![j] = heap[i]]

RECURSIVE siftdown(_, _, _)
siftdown(heap, startpos, pos) ==
  IF pos <= startpos
    THEN [heap |-> heap, err |-> FALSE]
    ELSE LET parentpos == pos \div 2
             cmp == TupleLt(heap[pos], heap[parentpos])
         IN  IF cmp = "TypeError" THEN [heap |-> heap, err |-> TRUE]
             ELSE IF cmp = "false" THEN [heap |-> heap, err |-> FALSE]
             ELSE siftdown(Swap(heap, pos, parentpos), startpos, parentpos)

RECURSIVE siftup_from(_, _, _)
siftup_from(heap, startpos, pos) ==
  LET endpos == Len(heap)
      left == 2 * pos
      right == 2 * pos + 1
  IN  IF pos > endpos \div 2
        THEN siftdown(heap, startpos, pos)
        ELSE LET cmp == IF right <= endpos
                          THEN TupleLt(heap[left], heap[right])
                          ELSE "true"
                 childpos == IF cmp = "true" THEN left ELSE right
             IN  IF cmp = "TypeError"
                   THEN [heap |-> heap, err |-> TRUE]
                   ELSE siftup_from(Swap(heap, pos, childpos), startpos, childpos)

siftup(heap, pos) == siftup_from(heap, pos, pos)

heappush(heap, item) == siftdown(Append(heap, item), 1, Len(heap) + 1)

\* [heap, err, item]: item is meaningful when err is FALSE
heappop(heap) ==
  LET n == Len(heap)
      lastelt == heap[n]
      rest == SubSeq(heap, 1, n - 1)
  IN  IF n = 1
        THEN [heap |-> rest, err |-> FALSE, item |-> lastelt]
        ELSE LET r == siftup([rest EXCEPT ![1] = lastelt], 1)
             IN  [heap |-> r.heap, err |-> r.err, item |-> heap[1]]

-----------------------------------------------------------------------------
(* State after AlertSystem() has been constructed *)

NoArgs == [message |-> "", is_critical |-> FALSE, product_url |-> None,
           last_time |-> 0, now |-> 0]

InitWith(P, clocks, regs) ==
  /\ clock \in clocks
  /\ last_alert = [u \in Urls |-> NoEntry]
  /\ queue = <<>>
  /\ unfinished_tasks = 0
  /\ nput = 0
  /\ running = TRUE
  /\ notifiers \in regs
  /\ ppc = [p \in P |-> "idle"]
  /\ args = [p \in P |-> NoArgs]
  /\ outcome = [p \in P |-> "none"]
  /\ calls = 0
  /\ wpc = "loop"
  /\ note = NoNote
  /\ idx = 0
  /\ futures = <<>>

\* The process is alive until the main thread leaves main()
Alive == wpc # "killed"

-----------------------------------------------------------------------------
(* The clock *)

\* time.time() moves on
Tick ==
  /\ Alive
  /\ \E t \in ClockValues : t > clock /\ clock' = t
  /\ UNCHANGED <<last_alert, queue, unfinished_tasks, nput, running, notifiers,
                 ppc, args, outcome, calls, wpc, note, idx, futures>>

-----------------------------------------------------------------------------
(* AlertSystem.add_notifier *)

add_notifier(n) ==
  /\ Alive
  /\ Len(notifiers) < MaxNotifiers
  /\ notifiers' = Append(notifiers, n)
  /\ UNCHANGED <<clock, last_alert, queue, unfinished_tasks, nput, running,
                 ppc, args, outcome, calls, wpc, note, idx, futures>>

-----------------------------------------------------------------------------
(* AlertSystem.notify, one action per access to shared state *)

\* dict.get(product_url, 0)
LastAlertGet(url) == IF last_alert[url] = NoEntry THEN 0 ELSE last_alert[url]

\* Lines 90-92: the call, `if product_url:` and the read of _last_alert
notify_call(p, message, is_critical, product_url) ==
  /\ Alive
  /\ ppc[p] = "idle"
  /\ calls < MaxCalls
  /\ calls' = calls + 1
  /\ outcome' = [outcome EXCEPT ![p] = "none"]
  /\ IF Truthy(product_url)
       THEN /\ args' = [args EXCEPT ![p] =
                          [message |-> message, is_critical |-> is_critical,
                           product_url |-> product_url,
                           last_time |-> LastAlertGet(product_url), now |-> 0]]
            /\ ppc' = [ppc EXCEPT ![p] = "check"]
       ELSE /\ args' = [args EXCEPT ![p] =
                          [message |-> message, is_critical |-> is_critical,
                           product_url |-> product_url, last_time |-> 0, now |-> 0]]
            /\ ppc' = [ppc EXCEPT ![p] = "put"]
  /\ UNCHANGED <<clock, last_alert, queue, unfinished_tasks, nput, running,
                 notifiers, wpc, note, idx, futures>>

\* Line 93: time.time() - last_time < 1800
InCooldown(now, last_time) == now - last_time < Cooldown

\* (variant: a suppressed call restarts the window)
notify_check_sliding(p) ==
  /\ Alive
  /\ ppc[p] = "check"
  /\ IF InCooldown(clock, args[p].last_time)
       THEN /\ ppc' = [ppc EXCEPT ![p] = "idle"]
            /\ outcome' = [outcome EXCEPT ![p] = "suppressed"]
            /\ args' = [args EXCEPT ![p] = NoArgs]
            /\ last_alert' = [last_alert EXCEPT ![args[p].product_url] = clock]
       ELSE /\ ppc' = [ppc EXCEPT ![p] = "record"]
            /\ args' = [args EXCEPT ![p].now = clock]
            /\ UNCHANGED <<outcome, last_alert>>
  /\ UNCHANGED <<clock, queue, unfinished_tasks, nput, running,
                 notifiers, calls, wpc, note, idx, futures>>

\* Lines 93-95: the comparison, and the early return
notify_check(p) ==
  /\ Alive
  /\ ppc[p] = "check"
  /\ IF InCooldown(clock, args[p].last_time)
       THEN /\ ppc' = [ppc EXCEPT ![p] = "idle"]
            /\ outcome' = [outcome EXCEPT ![p] = "suppressed"]
            /\ args' = [args EXCEPT ![p] = NoArgs]
       ELSE /\ ppc' = [ppc EXCEPT ![p] = "record"]
            /\ args' = [args EXCEPT ![p].now = clock]
            /\ UNCHANGED outcome
  /\ UNCHANGED <<clock, last_alert, queue, unfinished_tasks, nput, running,
                 notifiers, calls, wpc, note, idx, futures>>

\* (variant: one timestamp shared by all the keys)
notify_record_shared(p) ==
  /\ Alive
  /\ ppc[p] = "record"
  /\ last_alert' = [u \in Urls |-> IF u \in {None, ""} THEN last_alert[u] ELSE clock]
  /\ ppc' = [ppc EXCEPT ![p] = "put"]
  /\ UNCHANGED <<clock, queue, unfinished_tasks, nput, running, notifiers,
                 args, outcome, calls, wpc, note, idx, futures>>

\* Line 96: self._last_alert[product_url] = time.time()
notify_record(p) ==
  /\ Alive
  /\ ppc[p] = "record"
  /\ last_alert' = [last_alert EXCEPT ![args[p].product_url] = clock]
  /\ ppc' = [ppc EXCEPT ![p] = "put"]
  /\ UNCHANGED <<clock, queue, unfinished_tasks, nput, running, notifiers,
                 args, outcome, calls, wpc, note, idx, futures>>

\* Line 98
PriorityOf(is_critical) == IF is_critical THEN Critical ELSE Info

\* (variant: a put that raises leaves the heap list as it was)
notify_put_rollback(p) ==
  /\ Alive
  /\ ppc[p] = "put"
  /\ LET priority == PriorityOf(args[p].is_critical)
         item == [priority |-> priority,
                  note |-> Notification(args[p].message, priority),
                  seq |-> nput + 1]
         r == heappush(queue, item)
     IN  /\ queue' = IF r.err THEN queue ELSE r.heap
         /\ nput' = nput + 1
         /\ unfinished_tasks' = IF r.err THEN unfinished_tasks
                                         ELSE unfinished_tasks + 1
         /\ outcome' = [outcome EXCEPT ![p] =
                          IF r.err THEN "TypeError" ELSE "returned"]
  /\ ppc' = [ppc EXCEPT ![p] = "idle"]
  /\ args' = [args EXCEPT ![p] = NoArgs]
  /\ UNCHANGED <<clock, last_alert, running, notifiers, calls, wpc, note, idx,
                 futures>>

\* Lines 98-99: Queue.put holds the queue's mutex over _put (heappush) and the
\* increment of unfinished_tasks; an exception from heappush leaves the item
\* appended and skips the increment.
notify_put(p) ==
  /\ Alive
  /\ ppc[p] = "put"
  /\ LET priority == PriorityOf(args[p].is_critical)
         item == [priority |-> priority,
                  note |-> Notification(args[p].message, priority),
                  seq |-> nput + 1]
         r == heappush(queue, item)
     IN  /\ queue' = r.heap
         /\ nput' = nput + 1
         /\ unfinished_tasks' = IF r.err THEN unfinished_tasks
                                         ELSE unfinished_tasks + 1
         /\ outcome' = [outcome EXCEPT ![p] =
                          IF r.err THEN "TypeError" ELSE "returned"]
  /\ ppc' = [ppc EXCEPT ![p] = "idle"]
  /\ args' = [args EXCEPT ![p] = NoArgs]
  /\ UNCHANGED <<clock, last_alert, running, notifiers, calls, wpc, note, idx,
                 futures>>

-----------------------------------------------------------------------------
(* Notifier.send *)

Done(f) == f.state \in {"returned", "raised"}

\* (variant: the credentials are tested with `and`)
SendResultsBothMissing(n) ==
  CASE n.cls = "Console" ->
         {[state |-> "returned", net |-> "none", log |-> "console"]}
    [] n.cls = "Raising" ->
         {[state |-> "raised", net |-> "none", log |-> "none"]}
    [] n.cls = "Hanging" -> {}
    [] n.cls = "Telegram" ->
         IF ~Truthy(n.token) /\ ~Truthy(n.chat_id)
           THEN {[state |-> "returned", net |-> "none", log |-> "none"]}
           ELSE {[state |-> "returned", net |-> "ok", log |-> "enviado"],
                 [state |-> "returned", net |-> "rejected", log |-> "enviado"],
                 [state |-> "returned", net |-> "error", log |-> "falha"]}

\* The ways notifier.send(note) can end: state is how the call ends, net what
\* became of requests.post ("none": not called), log the record it wrote.
SendResults(n) ==
  CASE n.cls = "Console" ->
         {[state |-> "returned", net |-> "none", log |-> "console"]}
    [] n.cls = "Raising" ->
         {[state |-> "raised", net |-> "none", log |-> "none"]}
    [] n.cls = "Hanging" -> {}
    [] n.cls = "Telegram" ->
         IF ~Truthy(n.token) \/ ~Truthy(n.chat_id)
           THEN {[state |-> "returned", net |-> "none", log |-> "none"]}
           ELSE {[state |-> "returned", net |-> "ok", log |-> "enviado"],
                 [state |-> "returned", net |-> "rejected", log |-> "enviado"],
                 [state |-> "returned", net |-> "error", log |-> "falha"]}

-----------------------------------------------------------------------------
(* AlertSystem._process_queue *)

Executing == {i \in 1..Len(futures) : futures[i].state = "running"}

\* Line 102: while self._running
process_loop ==
  /\ wpc = "loop"
  /\ wpc' = IF running THEN "get" ELSE "exited"
  /\ UNCHANGED <<clock, last_alert, queue, unfinished_tasks, nput, running,
                 notifiers, ppc, args, outcome, calls, note, idx, futures>>

\* Line 104: get(timeout=1) finds an item; heappop under the queue's mutex.
\* A TypeError from heappop is not caught by `except queue.Empty`.
process_get ==
  /\ wpc = "get"
  /\ queue # <<>>
  /\ LET r == heappop(queue)
     IN  /\ queue' = r.heap
         /\ IF r.err
              THEN /\ wpc' = "TypeError"
                   /\ UNCHANGED <<note, idx, futures>>
              ELSE /\ wpc' = "submit"
                   /\ note' = r.item
                   /\ idx' = 1
                   /\ futures' = <<>>
  /\ UNCHANGED <<clock, last_alert, unfinished_tasks, nput, running, notifiers,
                 ppc, args, outcome, calls>>

\* Lines 104, 109-110: the timeout ends with queue.Empty, and `continue`
process_empty ==
  /\ wpc = "get"
  /\ queue = <<>>
  /\ wpc' = "loop"
  /\ UNCHANGED <<clock, last_alert, queue, unfinished_tasks, nput, running,
                 notifiers, ppc, args, outcome, calls, note, idx, futures>>

\* (variant: the executor starts a thread for every work item)
process_submit_unbounded ==
  /\ wpc = "submit"
  /\ idx <= Len(notifiers)
  /\ futures' = Append(futures, [state |-> "running", net |-> "none", log |-> "none"])
  /\ idx' = idx + 1
  /\ UNCHANGED <<clock, last_alert, queue, unfinished_tasks, nput, running,
                 notifiers, ppc, args, outcome, calls, wpc, note>>

\* Lines 106-107: the next notifier of the list is submitted; a pool thread
\* takes it at once while fewer than max_workers sends are executing.
process_submit ==
  /\ wpc = "submit"
  /\ idx <= Len(notifiers)
  /\ futures' = Append(futures,
                  [state |-> IF Cardinality(Executing) < max_workers
                               THEN "running" ELSE "pending",
                   net |-> "none", log |-> "none"])
  /\ idx' = idx + 1
  /\ UNCHANGED <<clock, last_alert, queue, unfinished_tasks, nput, running,
                 notifiers, ppc, args, outcome, calls, wpc, note>>

\* (variant: the loop stops one notifier early)
process_endfor_early ==
  /\ wpc = "submit"
  /\ idx >= Len(notifiers)
  /\ wpc' = "wait"
  /\ UNCHANGED <<clock, last_alert, queue, unfinished_tasks, nput, running,
                 notifiers, ppc, args, outcome, calls, note, idx, futures>>

\* Line 106: the list iterator is exhausted; the `with` block is left and
\* the executor shuts down waiting for its work items.
process_endfor ==
  /\ wpc = "submit"
  /\ idx > Len(notifiers)
  /\ wpc' = "wait"
  /\ UNCHANGED <<clock, last_alert, queue, unfinished_tasks, nput, running,
                 notifiers, ppc, args, outcome, calls, note, idx, futures>>

\* The oldest work item no pool thread has taken yet, 0 if there is none
FirstPending(fs) ==
  IF \E j \in 1..Len(fs) : fs[j].state = "pending"
    THEN CHOOSE j \in 1..Len(fs) :
           /\ fs[j].state = "pending"
           /\ \A k \in 1..(j - 1) : fs[k].state # "pending"
    ELSE 0

\* (variant: send is called in the worker thread, its exception propagates)
send_finish_inline(i) ==
  /\ wpc \in {"submit", "wait"}
  /\ i \in Executing
  /\ \E res \in SendResults(notifiers[i]) :
       /\ futures' = [futures EXCEPT ![i] = res]
       /\ wpc' = IF res.state = "raised" THEN "Exception" ELSE wpc
  /\ UNCHANGED <<clock, last_alert, queue, unfinished_tasks, nput, running,
                 notifiers, ppc, args, outcome, calls, note, idx>>

\* A pool thread finishes notifier.send(note); the exception of a raising send
\* is stored in its future, which nobody reads.  The freed thread takes the
\* oldest pending work item.
send_finish(i) ==
  /\ wpc \in {"submit", "wait"}
  /\ i \in Executing
  /\ \E res \in SendResults(notifiers[i]) :
       LET fs == [futures EXCEPT ![i] = res]
           j == FirstPending(fs)
       IN  futures' = IF j = 0 THEN fs ELSE [fs EXCEPT ![j].state = "running"]
  /\ UNCHANGED <<clock, last_alert, queue, unfinished_tasks, nput, running,
                 notifiers, ppc, args, outcome, calls, wpc, note, idx>>

\* Line 108, once every work item is done: Queue.task_done raises ValueError
\* when unfinished_tasks would become negative.
process_task_done ==
  /\ wpc = "wait"
  /\ \A i \in 1..Len(futures) : Done(futures[i])
  /\ IF unfinished_tasks - 1 < 0
       THEN wpc' = "ValueError" /\ UNCHANGED unfinished_tasks
       ELSE wpc' = "loop" /\ unfinished_tasks' = unfinished_tasks - 1
  /\ UNCHANGED <<clock, last_alert, queue, nput, running, notifiers, ppc, args,
                 outcome, calls, note, idx, futures>>

-----------------------------------------------------------------------------
(* Shutdown *)

\* Lines 235-237: KeyboardInterrupt ends main(); the process exits and takes
\* the daemon worker (line 83) with it, wherever it is.
keyboard_interrupt ==
  /\ Alive
  /\ wpc' = "killed"
  /\ UNCHANGED <<clock, last_alert, queue, unfinished_tasks, nput, running,
                 notifiers, ppc, args, outcome, calls, note, idx, futures>>

\* stop(): the stop signal the loop of line 102 reads
stop ==
  /\ Alive
  /\ running
  /\ running' = FALSE
  /\ UNCHANGED <<clock, last_alert, queue, unfinished_tasks, nput,
                 notifiers, ppc, args, outcome, calls, wpc, note, idx, futures>>

-----------------------------------------------------------------------------
(* Specifications *)

\* The threads calling notify
Producer(P, M, C, U) ==
  \/ \E p \in P, m \in M, c \in C, u \in U : notify_call(p, m, c, u)
  \/ \E p \in P : notify_check(p)
  \/ \E p \in P : notify_record(p)
  \/ \E p \in P : notify_put(p)

\* The same threads when every call is made without a product_url, as the
\* call of line 208: lines 92-96 are skipped.
ProducerUntracked(P, M, C) ==
  \/ \E p \in P, m \in M, c \in C : notify_call(p, m, c, None)
  \/ \E p \in P : notify_put(p)

\* The worker thread and the pool threads of its executor
Worker ==
  \/ process_loop
  \/ process_get
  \/ process_empty
  \/ process_submit
  \/ process_endfor
  \/ \E i \in 1..Len(futures) : send_finish(i)
  \/ process_task_done

\* Dispatch: the main thread registers notifiers and sends untracked alerts
\* of both priorities while the worker runs.
Next ==
  \/ ProducerUntracked(MainThread, {"A", "B"}, BOOLEAN)
  \/ Worker
  \/ \E n \in {ConsoleNotifier, RaisingNotifier} : add_notifier(n)

Spec == InitWith(MainThread, {Cooldown}, {<<>>}) /\ [][Next]_vars

\* Priority: three distinct messages of both priorities, the console
\* notifier registered.
NextPriority ==
  \/ ProducerUntracked(MainThread, Messages, BOOLEAN)
  \/ Worker

SpecPriority ==
  InitWith(MainThread, {Cooldown}, {<<ConsoleNotifier>>}) /\ [][NextPriority]_vars

\* The same, with the worker thread of line 83 and the pool threads scheduled
\* fairly: a thread that can take a step is not left waiting forever.
SpecPriorityFair == SpecPriority /\ WF_vars(Worker)

\* Shutdown: as Spec, with the stop signal and the interrupt of main().
NextShutdown ==
  \/ ProducerUntracked(MainThread, {"A"}, {TRUE})
  \/ Worker
  \/ \E n \in {ConsoleNotifier} : add_notifier(n)
  \/ stop
  \/ keyboard_interrupt

SpecShutdown == InitWith(MainThread, {Cooldown}, {<<>>}) /\ [][NextShutdown]_vars

\* Cooldown, one producer: the main thread, as in main(), under a moving clock.
NextSequential ==
  \/ Tick
  \/ Producer(MainThread, {"A", "B"}, {TRUE}, Urls)
  \/ Worker

SpecSequential ==
  InitWith(MainThread, ClockValues, {<<ConsoleNotifier>>}) /\ [][NextSequential]_vars

\* Cooldown, several producers calling notify concurrently.
NextCooldown ==
  \/ Tick
  \/ Producer(Producers, {"A"}, {TRUE}, {"u", "v"})
  \/ Worker

SpecCooldown ==
  InitWith(Producers, ClockValues, {<<ConsoleNotifier>>}) /\ [][NextCooldown]_vars

\* Channels: every configuration of the Telegram notifier, and a hanging one.
NextChannels ==
  \/ ProducerUntracked(MainThread, {"A"}, {FALSE})
  \/ Worker
  \/ \E n \in NotifierValues : add_notifier(n)

SpecChannels == InitWith(MainThread, {Cooldown}, {<<>>}) /\ [][NextChannels]_vars

\* Stop: the stop signal while a registered channel may never answer
\* (requests.post of line 73 is called without a timeout).
NextStop ==
  \/ ProducerUntracked(MainThread, {"A"}, {TRUE})
  \/ Worker
  \/ \E n \in {ConsoleNotifier, HangingNotifier} : add_notifier(n)
  \/ stop

SpecStop == InitWith(MainThread, {Cooldown}, {<<>>}) /\ [][NextStop]_vars

\* Fan-out: one notifier more than the executor has threads, registered
\* before the first alert as in lines 205-206.
FanOutRegistries == [1..(max_workers + 1) -> {ConsoleNotifier, RaisingNotifier}]

NextFanOut ==
  \/ ProducerUntracked(MainThread, {"A"}, {TRUE})
  \/ Worker

SpecFanOut == InitWith(MainThread, {Cooldown}, FanOutRegistries) /\ [][NextFanOut]_vars

-----------------------------------------------------------------------------
(* Properties *)

Untracked(p) == args[p].product_url \in {None, ""}
Tracked(p) == ~Untracked(p)
ProducerSet == DOMAIN ppc
Crashed(w) == w \in {"TypeError", "ValueError"}
NoteOf(p) == Notification(args[p].message, PriorityOf(args[p].is_critical))
Contents(q) == {q[i].note : i \in 1..Len(q)}

\* The pending item the queue owes the worker next: least priority number,
\* and the earliest put among those.
Oldest(q) ==
  CHOOSE i \in 1..Len(q) :
    \A j \in 1..Len(q) :
      \/ q[i].priority < q[j].priority
      \/ q[i].priority = q[j].priority /\ q[i].seq <= q[j].seq

\* C1 (priority ordering): whenever the worker's get finds notifications
\* pending, it returns one, and the one it returns is a Critical one if any
\* is pending and, among those of that priority, the one put first.
PriorityOrdering ==
  [][(wpc = "get" /\ queue # <<>> /\ wpc' \notin {"get", "killed"})
       => (wpc' = "submit" /\ note'.note = queue[Oldest(queue)].note)]_vars

\* C2 (cooldown suppression): with one producer, a tracked call is suppressed
\* exactly when an alert for its key was accepted before and fewer than 1800
\* seconds have passed since.
CooldownSuppression ==
  [][\A p \in ProducerSet :
       (ppc[p] = "check" /\ ppc'[p] # "check")
         => LET u == args[p].product_url
            IN  (outcome'[p] = "suppressed")
                  <=> (last_alert[u] # NoEntry /\ clock - last_alert[u] < Cooldown)]_vars

\* C3 (test-and-set): two calls for the same key that have both passed the
\* cooldown check passed it at least 1800 seconds apart.
TestAndSet ==
  \A p, q \in ProducerSet :
    (/\ p # q
     /\ ppc[p] \in {"record", "put"} /\ Tracked(p)
     /\ ppc[q] \in {"record", "put"} /\ Tracked(q)
     /\ args[p].product_url = args[q].product_url
     /\ args[p].now <= args[q].now)
      => args[q].now - args[p].now >= Cooldown

\* C4 (accepted notify enqueues and returns): the put of a call that was not
\* suppressed returns normally and leaves exactly one more pending item.
AcceptedNotifyReturns ==
  [][\A p \in ProducerSet :
       (ppc[p] = "put" /\ ppc'[p] = "idle")
         => (outcome'[p] = "returned" /\ Len(queue') = Len(queue) + 1)]_vars

\* C5 (untracked alerts bypass cooldown): a call without a product_url, or
\* with an empty one, goes from the call straight to the put, is never
\* suppressed, leaves _last_alert as it is, and its Notification is pending
\* after the put.
UntrackedBypass ==
  [][\A p \in ProducerSet :
       /\ (ppc[p] = "idle" /\ ppc'[p] # "idle" /\ Untracked(p)')
            => (ppc'[p] = "put" /\ last_alert' = last_alert)
       /\ (ppc[p] = "put" /\ ppc'[p] = "idle" /\ Untracked(p))
            => /\ outcome'[p] # "suppressed"
               /\ last_alert' = last_alert
               /\ Len(queue') = Len(queue) + 1
               /\ NoteOf(p) \in Contents(queue')]_vars

UntrackedBypassWitness ==
  /\ nput = 3
  /\ Len(queue) = 3
  /\ \A u \in Urls : last_alert[u] = NoEntry
  /\ \E i \in 1..3 : queue[i].note.message = "B"

\* C6 (cooldown isolation): the entry of a key changes only in the record
\* step of a notify call for that very key.
CooldownIsolation ==
  [][\A k \in Urls :
       last_alert'[k] # last_alert[k]
         => \E p \in ProducerSet :
              /\ ppc[p] = "record" /\ ppc'[p] = "put"
              /\ args[p].product_url = k]_vars

CooldownIsolationWitness ==
  /\ last_alert["u"] # NoEntry
  /\ last_alert["v"] # NoEntry
  /\ last_alert["u"] < last_alert["v"]
  /\ last_alert["v"] - last_alert["u"] < Cooldown

\* C7 (channel isolation): a send that raises leaves the worker where it is
\* and every other work item as it was; the worker waits for the work items
\* of all the notifiers it iterated over, so a console notifier beside a
\* raising one has returned when the worker goes on; and the worker never
\* goes from the fan-out to an exception other than task_done's ValueError
\* for a task count of zero.
ChannelIsolation ==
  [][/\ \A i \in 1..Len(futures) :
          (futures[i].state = "running" /\ futures'[i].state = "raised")
            => /\ wpc' = wpc
               /\ Len(futures') = Len(futures)
               /\ \A j \in 1..Len(futures) :
                    (j # i /\ futures[j].state # "pending") => futures'[j] = futures[j]
     /\ (wpc = "submit" /\ wpc' = "wait") => Len(futures) = Len(notifiers)
     /\ (wpc = "wait" /\ wpc' \in {"loop", "ValueError"})
          => \A j \in 1..Len(futures) :
               notifiers[j].cls = "Console" => futures[j].state = "returned"
     /\ (wpc \in {"submit", "wait"} /\ Crashed(wpc'))
          => (wpc = "wait" /\ wpc' = "ValueError" /\ unfinished_tasks = 0)]_vars

ChannelIsolationWitness ==
  /\ wpc = "wait"
  /\ note.seq = 2
  /\ unfinished_tasks = 1
  /\ Len(futures) = 2
  /\ \E i, j \in 1..2 :
       /\ notifiers[i].cls = "Raising" /\ futures[i].state = "raised"
       /\ notifiers[j].cls = "Console" /\ futures[j].state = "returned"

\* C8 (exactly-once fan-out): a get removes exactly the item it returns; in
\* the fan-out the work items are one per notifier iterated over, in order;
\* the loop over the notifiers ends only when every registered notifier has
\* its work item; and a finished work item is never run again.
ExactlyOnceFanOut ==
  [][/\ (wpc = "get" /\ wpc' = "submit")
          => /\ Len(queue') = Len(queue) - 1
             /\ note'.seq \in {queue[i].seq : i \in 1..Len(queue)}
             /\ {queue'[i].seq : i \in 1..Len(queue')}
                  = {queue[i].seq : i \in 1..Len(queue)} \ {note'.seq}
             /\ futures' = <<>>
     /\ (wpc \in {"submit", "wait"}) => Len(futures) = idx - 1
     /\ (wpc = "submit" /\ wpc' = "wait") => Len(futures) = Len(notifiers)
     /\ (wpc \in {"submit", "wait"} /\ wpc' \in {"submit", "wait"})
          => /\ note' = note
             /\ Len(futures') >= Len(futures)
             /\ \A i \in 1..Len(futures) :
                  Done(futures[i]) => futures'[i] = futures[i]]_vars

ExactlyOnceFanOutWitness ==
  /\ wpc = "wait"
  /\ Len(notifiers) = 2
  /\ Len(futures) = 2
  /\ \A i \in 1..2 : Done(futures[i])
  /\ queue # <<>>

\* C9 (stop drains): when the worker ends, by the stop signal or with the
\* process, nothing is pending.
StopDrains ==
  [][(wpc \notin {"exited", "killed"} /\ wpc' \in {"exited", "killed"})
       => queue' = <<>>]_vars

\* C10 (graceful degrade): the send of a Telegram notifier without a token
\* or without a chat id never calls requests.post, never raises and, once
\* taken by a pool thread, can return.
Unconfigured(n) ==
  n.cls = "Telegram" /\ (n.token \in {None, ""} \/ n.chat_id \in {None, ""})

GracefulDegrade ==
  \A i \in 1..Len(futures) :
    (wpc \in {"submit", "wait"} /\ Unconfigured(notifiers[i]))
      => /\ futures[i].net = "none"
         /\ futures[i].state # "raised"
         /\ futures[i].state = "running" => ENABLED send_finish(i)

GracefulDegradeWitness ==
  /\ wpc = "wait"
  /\ Len(futures) = 2
  /\ notifiers[1] = TelegramNotifier("tok", None)
  /\ notifiers[2] = TelegramNotifier("", "tok")
  /\ futures[1].state = "returned"
  /\ futures[2].state = "returned"

\* C11 (cooldown entry only on acceptance): an entry of _last_alert changes
\* only in the record step of a call that has passed the check for that key,
\* that call leaves notify only through the put, and after the put its
\* Notification is pending, also when the put raised.
EntryOnlyOnAcceptance ==
  [][/\ \A k \in Urls :
          last_alert'[k] # last_alert[k]
            => \E p \in ProducerSet :
                 /\ ppc[p] = "record" /\ ppc'[p] = "put"
                 /\ args[p].product_url = k
                 /\ ~InCooldown(args[p].now, args[p].last_time)
     /\ \A p \in ProducerSet :
          (ppc[p] = "put" /\ Tracked(p) /\ ppc'[p] # "put")
            => /\ ppc'[p] = "idle"
               /\ Len(queue') = Len(queue) + 1
               /\ NoteOf(p) \in Contents(queue')
               /\ last_alert'[args[p].product_url] # NoEntry]_vars

\* two tracked calls, the put of the second raised
EntryOnlyOnAcceptanceWitness ==
  /\ outcome["p1"] = "TypeError"
  /\ last_alert["u"] # NoEntry
  /\ last_alert["v"] # NoEntry
  /\ calls = 2
  /\ nput = 2
  /\ Len(queue) = 2
  /\ Contents(queue) = {Notification("A", Critical), Notification("B", Critical)}

\* C12 (suppressed notify has no side effects): the call and the check of a
\* suppressed notify change neither _last_alert nor the queue, and a check
\* made 1800 seconds or more after the recorded timestamp passes.
SuppressedNoSideEffects ==
  [][\A p \in ProducerSet :
       /\ (ppc[p] = "idle" /\ ppc'[p] = "check")
            => (last_alert' = last_alert /\ queue' = queue
                  /\ unfinished_tasks' = unfinished_tasks)
       /\ (ppc[p] = "check" /\ outcome'[p] = "suppressed")
            => (last_alert' = last_alert /\ queue' = queue
                  /\ unfinished_tasks' = unfinished_tasks /\ ppc'[p] = "idle")
       /\ (/\ ppc[p] = "check" /\ ppc'[p] # "check"
           /\ last_alert[args[p].product_url] # NoEntry
           /\ clock - last_alert[args[p].product_url] >= Cooldown)
            => ppc'[p] = "record"]_vars

\* accepted, suppressed 1799 seconds later, accepted one second after that
SuppressedNoSideEffectsWitness ==
  /\ calls = 3
  /\ nput = 1
  /\ ppc["p1"] = "record"
  /\ args["p1"].product_url = "u"
  /\ clock - last_alert["u"] = Cooldown

\* C13 (stop is bounded): once _running is false the worker thread has left
\* the loop or still has a step to take towards leaving it, also when a
\* registered channel's send never returns.
StopBounded ==
  ~running => (wpc = "exited" \/ Crashed(wpc) \/ ENABLED Worker)

\* C14 (bounded fan-out): at most max_workers sends execute at a time, and
\* while the worker is at the loop test or at the get that dequeues the next
\* notification no send of the previous one is executing or waiting for a
\* thread.
BoundedFanOut ==
  /\ Cardinality(Executing) <= max_workers
  /\ wpc \in {"loop", "get"} => \A i \in 1..Len(futures) : Done(futures[i])

\* every pool thread busy, the last notifier's send waiting for a thread,
\* the next notification already queued
BoundedFanOutWitness ==
  /\ Len(notifiers) > max_workers
  /\ Cardinality(Executing) = max_workers
  /\ \E i \in 1..Len(futures) : futures[i].state = "pending"
  /\ queue # <<>>

\* C15 (delivery failures are logged): once the worker has finished the
\* fan-out of a notification, every send that ended by raising has a log
\* record.
FailuresLogged ==
  wpc \in {"loop", "get"}
    => \A i \in 1..Len(futures) :
         futures[i].state = "raised" => futures[i].log # "none"

\* C16 (chat-bot failure reporting): a finished send of a Telegram notifier
\* with token and chat_id has returned, and unless the API accepted the
\* message its log record is the failure record, not the "sent" one.
ChatBotFailureReported ==
  \A i \in 1..Len(futures) :
    (/\ notifiers[i].cls = "Telegram"
     /\ ~Unconfigured(notifiers[i])
     /\ Done(futures[i]))
      => /\ futures[i].state = "returned"
         /\ futures[i].net # "ok" => futures[i].log = "falha"

\* C17 (dispatch loop survives): while _running is true the worker thread is
\* executing _process_queue; no exception has ended it.
LoopSurvives ==
  running => wpc \in {"loop", "get", "submit", "wait"}

\* C18 (eventual dispatch): with finitely many calls of notify, the console
\* notifier, whose send returns, and a fairly scheduled worker, the queue is
\* eventually empty and stays empty: every notification placed on it has
\* been taken by the worker.
EventualDispatch == <>[](queue = <<>>)

\* C19 (first alert is never suppressed): a call of notify whose key has no
\* entry in _last_alert passes the check of line 93 and goes on to record
\* and enqueue, whatever the clock shows.
FirstAlertAccepted ==
  [][\A p \in ProducerSet :
       (/\ ppc[p] = "check"
        /\ last_alert[args[p].product_url] = NoEntry
        /\ ppc'[p] # "check")
         => (ppc'[p] = "record" /\ outcome'[p] # "suppressed")]_vars

====
